---- MODULE Spec2Model ----
(***************************************************************************)
(* Indexing and hybrid retrieval engine of smart_knowledge_repo:           *)
(*   src/src/search/indexing.py       EmbeddingGenerator, ContentIndexer,  *)
(*                                    SearchIndexManager                   *)
(*   src/src/search/vector_search.py  VectorSearch, KeywordSearch,         *)
(*                                    SemanticSearchEngine                 *)
(*                                                                         *)
(* Texts are sets of index terms (what TfidfVectorizer's analyser keeps of *)
(* a string after tokenising and dropping stop words).  Scores are fixed   *)
(* point: a cosine similarity s is the integer floor(Scale * s).           *)
(***************************************************************************)
EXTENDS Integers, Sequences, FiniteSets, TLC

\* ------------------------------------------------------------------ bounds

\* SearchIndexManager.rebuild_threshold: an instance attribute (100 after
\* construction), set small here so that the threshold is crossed.
RebuildThreshold == 3

\* Successful SearchIndexManager mutations followed since construction.
MaxMutations == 7

\* VectorSearch.embedding_dimension / EmbeddingGenerator.embedding_dimension:
\* constructor configuration (384 by default), set small here.
EmbeddingDimension == 2

\* Longest content_list handed to index_content / build_index / batch_index.
MaxBatch == 2

\* build_index calls followed in a race with a search.
MaxBuilds == 2

\* Fixed-point unit of a cosine similarity.
Scale == 100

\* load_index / load_indexes calls followed after the index was fed and saved.
MaxLoads == 1

\* Longest run of distinct keywords in a text given to _extract_keywords.
MaxRun == 22

\* Most other words (stop words, short words, repeats) within such a text.
MaxNoise == 2

\* Most chat messages held by all live sessions together.
MaxMessages == 5

\* Most scraping jobs created.
MaxJobs == 2

\* Most run coroutines in flight for one job.
MaxRuns == 2

Ids == {1, 2}

Terms == {"alice", "bob"}

\* A text is the set of terms its analysis yields; {} is a text with no
\* usable term (empty, or stop words only).
Texts == SUBSET Terms

\* The documents callers hand in: two versions of each id.
Docs ==
    {[id |-> 1, content |-> {"alice"}], [id |-> 1, content |-> {"alice", "bob"}],
     [id |-> 2, content |-> {"bob"}], [id |-> 2, content |-> {}]}

VARIABLES
    indexed_content,        \* ContentIndexer.indexed_content (insertion-ordered dict)
    changes_since_rebuild,  \* SearchIndexManager.changes_since_rebuild
    mutations,              \* history: successful SearchIndexManager mutations
    rebuilds,               \* history: calls of SearchIndexManager.rebuild_indexes
    embedding_dimension,    \* VectorSearch.embedding_dimension
    vs_embeddings,          \* VectorSearch.embeddings (insertion-ordered dict)
    vs_metadata,            \* VectorSearch.content_metadata
    kw_vectorizer,          \* KeywordSearch.vectorizer (its fitted state)
    kw_matrix,              \* KeywordSearch.tfidf_matrix
    kw_metadata,            \* KeywordSearch.content_metadata (insertion-ordered dict)
    ret,                    \* the last call: its name, arguments and outcome
    builder,                \* a build_index call in progress in one thread
    searcher,               \* a KeywordSearch.search call in progress in another
    disk,                   \* the index files under base_path, and what saved them
    loads,                  \* history: load calls made
    sessions,               \* ChatService.sessions (insertion-ordered dict)
    jobs,                   \* ScrapingService.jobs (insertion-ordered dict)
    runners                 \* run_*_job coroutines in flight, per job id

indexVars == <<indexed_content, changes_since_rebuild, mutations, rebuilds>>
vectorVars == <<embedding_dimension, vs_embeddings, vs_metadata>>
keywordVars == <<kw_vectorizer, kw_matrix, kw_metadata>>
engineVars == <<vectorVars, keywordVars>>
threadVars == <<builder, searcher>>
storeVars == <<disk, loads>>
chatVars == <<sessions>>
jobVars == <<jobs, runners>>
serviceVars == <<chatVars, jobVars>>
vars == <<indexVars, engineVars, ret, threadVars, storeVars, serviceVars>>

\* ---------------------------------------------------------- call and return
\* Calls come one at a time: a call starts when the outcome of the one
\* before has been taken, and leaves its own outcome in ret.

\* No call is in progress and the last outcome has been taken.
Idle == [op |-> "idle"]

\* The caller takes the outcome of the call.
Return ==
    /\ ret # Idle
    /\ ret' = Idle
    /\ UNCHANGED <<indexVars, engineVars, threadVars, storeVars, serviceVars>>

\* ------------------------------------------------- Python dict (ordered)
\* A dict is a sequence of [k, v] entries in insertion order: assigning an
\* existing key keeps its position, a new key goes last.

DictHas(d, k) == \E i \in 1..Len(d) : d[i].k = k

DictGet(d, k) == d[CHOOSE i \in 1..Len(d) : d[i].k = k].v

DictPut(d, k, v) ==
    IF DictHas(d, k)
    THEN [i \in 1..Len(d) |-> IF d[i].k = k THEN [k |-> k, v |-> v] ELSE d[i]]
    ELSE Append(d, [k |-> k, v |-> v])

DictDel(d, k) == SelectSeq(d, LAMBDA e : e.k # k)

DictKeys(d) == {d[i].k : i \in 1..Len(d)}

\* ------------------------------------------------------ EmbeddingGenerator

\* The md5 digest of a text, as one number per text.
TextCode(text) ==
    CASE text = {} -> 6
      [] text = {"alice"} -> 5
      [] text = {"bob"} -> 7
      [] OTHER -> 8

\* One component of the embedding: a value in [-1, 1] read off the digest.
HashByte(text, j) == ((TextCode(text) \div (3 ^ (j - 1))) % 3) - 1

\* generate_embedding: a deterministic vector of the generator's dimension.
GenerateEmbedding(text) == [j \in 1..EmbeddingDimension |-> HashByte(text, j)]

\* --------------------------------------------------------- ContentIndexer

\* index_profile / index_knowledge_entry: the entry stored under the id.
IndexEntry(id, text) ==
    [content_id |-> id, content |-> text, embedding |-> GenerateEmbedding(text)]

\* index_profile / index_knowledge_entry: store (or overwrite) the entry.
IndexContentEntry(ic, id, text) == DictPut(ic, id, IndexEntry(id, text))

UpdateIndexUpsert(ic, id, source) == IndexContentEntry(ic, source.id, source.content)

\* update_index(content_id, updated_data): re-index only if content_id is
\* already indexed; index_profile / index_knowledge_entry then store the
\* entry under updated_data['id'], whatever content_id is.
UpdateIndexResult(ic, id, source) ==
    IF DictHas(ic, id) THEN IndexContentEntry(ic, source.id, source.content) ELSE ic

\* remove_from_index.
RemoveFromIndexResult(ic, id) == IF DictHas(ic, id) THEN DictDel(ic, id) ELSE ic

\* export_embeddings: content_id -> embedding, in dict order.
ExportEmbeddings(ic) ==
    [i \in 1..Len(ic) |-> [k |-> ic[i].k, v |-> ic[i].v.embedding]]

\* export_content_metadata: the list of content dicts, in dict order.
ExportContentMetadata(ic) ==
    [i \in 1..Len(ic) |-> [id |-> ic[i].k, content |-> ic[i].v.content]]

\* ------------------------------------------ ContentIndexer._extract_keywords
\* A text is the sequence of its words, as the pattern \b\w+\b finds them.

\* The words of the texts that are not lower case, and text.lower() of them.
LowerCased == [w \in {"The", "Kw1"} |-> IF w = "The" THEN "the" ELSE "kw1"]

\* text.lower(), word by word.
Lower(word) == IF word \in DOMAIN LowerCased THEN LowerCased[word] ELSE word

\* words = re.findall(r'\b\w+\b', text.lower())
Words(text) == [i \in 1..Len(text) |-> Lower(text[i])]

\* stop_words
StopWords ==
    {"the", "a", "an", "and", "or", "but", "in", "on", "at", "to", "for",
     "of", "with", "by", "from", "up", "about", "into", "through", "during",
     "before", "after", "above", "below", "between", "among", "within",
     "is", "are", "was", "were", "be", "been", "being", "have", "has", "had",
     "do", "does", "did", "will", "would", "could", "should", "may", "might",
     "must", "can", "this", "that", "these", "those", "i", "you", "he", "she",
     "it", "we", "they", "me", "him", "her", "us", "them"}

\* keywords = [word for word in words if len(word) > 2 and word not in stop_words]
FilteredWords(words) == SelectSeq(words, LAMBDA w : Len(w) > 2 /\ w \notin StopWords)

\* The loop over keywords with the set seen: unique_keywords.
RECURSIVE UniqueKeywords(_, _, _)
UniqueKeywords(keywords, seen, unique_keywords) ==
    IF keywords = <<>> THEN unique_keywords
    ELSE IF Head(keywords) \in seen
         THEN UniqueKeywords(Tail(keywords), seen, unique_keywords)
         ELSE UniqueKeywords(Tail(keywords), seen \cup {Head(keywords)},
                             Append(unique_keywords, Head(keywords)))

\* unique_keywords[:20]
KeywordLimit == 20

\* s[:k]
Slice(s, k) == SubSeq(s, 1, IF k < Len(s) THEN k ELSE Len(s))

ExtractKeywordsCutFirst(text) ==
    UniqueKeywords(Slice(FilteredWords(Words(text)), KeywordLimit), {}, <<>>)

\* _extract_keywords
ExtractKeywords(text) ==
    IF text = <<>> THEN <<>>
    ELSE Slice(UniqueKeywords(FilteredWords(Words(text)), {}, <<>>), KeywordLimit)

\* ----------------------------------------------------- SearchIndexManager

RebuildNeededLate(changes) == changes > RebuildThreshold

\* _check_rebuild_needed: does the counter call for a rebuild?
RebuildNeeded(changes) == changes >= RebuildThreshold

\* The counter after one successful mutation: incremented, then reset by
\* rebuild_indexes when _check_rebuild_needed fires.
CountedChange(changes) ==
    IF RebuildNeeded(changes + 1) THEN 0 ELSE changes + 1

\* How many times rebuild_indexes runs for one successful mutation.
RebuildsFor(changes) == IF RebuildNeeded(changes + 1) THEN 1 ELSE 0

\* The bookkeeping every successful manager mutation shares.
Counted ==
    /\ mutations < MaxMutations
    /\ changes_since_rebuild' = CountedChange(changes_since_rebuild)
    /\ rebuilds' = rebuilds + RebuildsFor(changes_since_rebuild)
    /\ mutations' = mutations + 1

\* SearchIndexManager.add_content
AddContent(id, text) ==
    /\ ret = Idle
    /\ indexed_content' = IndexContentEntry(indexed_content, id, text)
    /\ Counted
    /\ ret' = [op |-> "add_content", id |-> id, text |-> text, ok |-> TRUE]
    /\ UNCHANGED <<engineVars, threadVars, storeVars, serviceVars>>

\* SearchIndexManager.update_content
UpdateContent(id, source) ==
    /\ ret = Idle
    /\ indexed_content' = UpdateIndexResult(indexed_content, id, source)
    /\ IF DictHas(indexed_content, id)
       THEN Counted
       ELSE UNCHANGED <<changes_since_rebuild, mutations, rebuilds>>
    /\ ret' = [op |-> "update_content", id |-> id, text |-> source.content,
               source_id |-> source.id,
               ok |-> DictHas(indexed_content, id)]
    /\ UNCHANGED <<engineVars, threadVars, storeVars, serviceVars>>

\* SearchIndexManager.remove_content
RemoveContent(id) ==
    /\ ret = Idle
    /\ indexed_content' = RemoveFromIndexResult(indexed_content, id)
    /\ IF DictHas(indexed_content, id)
       THEN Counted
       ELSE UNCHANGED <<changes_since_rebuild, mutations, rebuilds>>
    /\ ret' = [op |-> "remove_content", id |-> id, text |-> {},
               ok |-> DictHas(indexed_content, id)]
    /\ UNCHANGED <<engineVars, threadVars, storeVars, serviceVars>>

\* ContentIndexer.index_profile / index_knowledge_entry, called directly
IndexerIndex(id, text) ==
    /\ ret = Idle
    /\ indexed_content' = IndexContentEntry(indexed_content, id, text)
    /\ ret' = [op |-> "index_entry", id |-> id, text |-> text, ok |-> TRUE]
    /\ UNCHANGED <<changes_since_rebuild, mutations, rebuilds, engineVars, threadVars, storeVars, serviceVars>>

\* batch_index: index every item of the list, in order.
RECURSIVE BatchIndexResult(_, _)
BatchIndexResult(ic, content_list) ==
    IF content_list = <<>> THEN ic
    ELSE BatchIndexResult(
            IndexContentEntry(ic, Head(content_list).id, Head(content_list).content),
            Tail(content_list))

\* ContentIndexer.batch_index, called directly
IndexerBatch(content_list) ==
    /\ ret = Idle
    /\ indexed_content' = BatchIndexResult(indexed_content, content_list)
    /\ ret' = [op |-> "batch_index", n |-> Len(content_list), ok |-> TRUE]
    /\ UNCHANGED <<changes_since_rebuild, mutations, rebuilds, engineVars, threadVars, storeVars, serviceVars>>

\* ContentIndexer.update_index, called directly
IndexerUpdate(id, source) ==
    /\ ret = Idle
    /\ indexed_content' = UpdateIndexResult(indexed_content, id, source)
    /\ ret' = [op |-> "update_index", id |-> id, text |-> source.content,
               source_id |-> source.id,
               ok |-> DictHas(indexed_content, id)]
    /\ UNCHANGED <<changes_since_rebuild, mutations, rebuilds, engineVars, threadVars, storeVars, serviceVars>>

\* ContentIndexer.remove_from_index, called directly
IndexerRemove(id) ==
    /\ ret = Idle
    /\ indexed_content' = RemoveFromIndexResult(indexed_content, id)
    /\ ret' = [op |-> "remove_from_index", id |-> id, text |-> {},
               ok |-> DictHas(indexed_content, id)]
    /\ UNCHANGED <<changes_since_rebuild, mutations, rebuilds, engineVars, threadVars, storeVars, serviceVars>>

\* ------------------------------------------------------- cosine similarity

RECURSIVE SumTo(_, _)
SumTo(f, n) == IF n = 0 THEN 0 ELSE f[n] + SumTo(f, n - 1)

Dot(a, b) == SumTo([j \in 1..Len(a) |-> a[j] * b[j]], Len(a))

\* sklearn cosine_similarity of two vectors of one length, in fixed point:
\* Scale * a.b / (|a| |b|), cut towards zero; a zero vector scores 0.
CosineSimilarity(a, b) ==
    LET na == Dot(a, a)
        nb == Dot(b, b)
        d == Dot(a, b)
        s == CHOOSE x \in 0..Scale :
                /\ x * x * na * nb <= Scale * Scale * d * d
                /\ (x + 1) * (x + 1) * na * nb > Scale * Scale * d * d
    IN  IF na = 0 \/ nb = 0 THEN 0 ELSE IF d < 0 THEN 0 - s ELSE s

\* list.sort(key=score, reverse=True): stable, so equal scores keep the
\* order they had.  InsertByScore puts x after every element scoring >= x.
InsertByScore(sorted, x) ==
    LET ahead == SelectSeq(sorted, LAMBDA r : r.score >= x.score)
        behind == SelectSeq(sorted, LAMBDA r : r.score < x.score)
    IN  ahead \o <<x>> \o behind

RECURSIVE SortByScore(_)
SortByScore(rs) ==
    IF Len(rs) <= 1 THEN rs
    ELSE InsertByScore(SortByScore(SubSeq(rs, 1, Len(rs) - 1)), rs[Len(rs)])

\* results[:top_k]
Take(rs, k) == SubSeq(rs, 1, IF k < Len(rs) THEN k ELSE Len(rs))

\* A search outcome: the result list, or the exception that ended the call.
Found(rs) == [err |-> FALSE, results |-> rs]
Raised == [err |-> TRUE, results |-> <<>>]

\* ------------------------------------------------------------ VectorSearch

\* A vector whose length is not the configured dimension.
WrongLengthVector == [j \in 1..(EmbeddingDimension + 1) |-> 1]

\* add_embedding: the length check comes first and raises.
AddEmbeddingRaises(dim, embedding) == Len(embedding) # dim

\* add_embedding: the embeddings dict after the call.
AddEmbeddingEmbeddings(dim, embs, id, embedding) ==
    IF AddEmbeddingRaises(dim, embedding) THEN embs ELSE DictPut(embs, id, embedding)

AddEmbeddingMetadataFirst(dim, meta, id, embedding, doc) == DictPut(meta, id, doc)

\* add_embedding: the content_metadata dict after the call.
AddEmbeddingMetadata(dim, meta, id, embedding, doc) ==
    IF AddEmbeddingRaises(dim, embedding) THEN meta ELSE DictPut(meta, id, doc)

\* metadata.get('content', '') of content_metadata.get(content_id, {})
MetaContent(meta, id) == IF DictHas(meta, id) THEN DictGet(meta, id).content ELSE {}

VectorSearchResultsCutFirst(embs, meta, query_embedding, top_k, min_score) ==
    LET scored == [i \in 1..Len(embs) |->
                     [content_id |-> embs[i].k,
                      content |-> MetaContent(meta, embs[i].k),
                      score |-> CosineSimilarity(query_embedding, embs[i].v)]]
        kept == SelectSeq(scored, LAMBDA r : r.score >= min_score)
    IN  SortByScore(Take(kept, top_k))

\* VectorSearch.search
VectorSearchResults(embs, meta, query_embedding, top_k, min_score) ==
    LET scored == [i \in 1..Len(embs) |->
                     [content_id |-> embs[i].k,
                      content |-> MetaContent(meta, embs[i].k),
                      score |-> CosineSimilarity(query_embedding, embs[i].v)]]
        kept == SelectSeq(scored, LAMBDA r : r.score >= min_score)
    IN  IF Len(embs) = 0 THEN <<>> ELSE Take(SortByScore(kept), top_k)

\* remove_embedding
RemoveEmbeddingResult(d, id) == IF DictHas(d, id) THEN DictDel(d, id) ELSE d

\* ----------------------------------------------------------- KeywordSearch

\* sklearn orders the vocabulary's columns alphabetically.
TermOrder == <<"alice", "bob">>

\* TfidfVectorizer before any fit.
Unfitted == [fitted |-> FALSE, n |-> 0, df |-> [t \in Terms |-> 0]]

\* tfidf_matrix = None
NoMatrix == [present |-> FALSE, fit |-> Unfitted, rows |-> <<>>]

\* The statistics fit_transform learns: the number of documents and each
\* term's document frequency; the vocabulary is the terms with df > 0.
FitOf(texts) ==
    [fitted |-> TRUE, n |-> Len(texts),
     df |-> [t \in Terms |-> Cardinality({i \in 1..Len(texts) : t \in texts[i]})]]

\* fit_transform raises ValueError (empty vocabulary) when no document
\* holds a term.
FitRaises(texts) == \A i \in 1..Len(texts) : texts[i] = {}

\* 4 * (ln((1 + n) / (1 + df)) + 1), sklearn's smoothed idf, rounded.
Idf(n, df) ==
    LET r == <<1 + n, 1 + df>>
    IN  CASE n = df -> 4
          [] r = <<3, 2>> -> 6
          [] r = <<4, 2>> -> 7
          [] r = <<4, 3>> -> 5
          [] r = <<5, 2>> -> 8
          [] r = <<5, 3>> -> 6
          [] r = <<5, 4>> -> 5
          [] r = <<6, 2>> -> 8
          [] r = <<6, 3>> -> 7
          [] r = <<6, 4>> -> 6
          [] r = <<6, 5>> -> 5

Columns(fit) == SelectSeq(TermOrder, LAMBDA t : fit.df[t] > 0)

\* The tf-idf vector of a text in the column space of a fit.
TfidfVector(fit, text) ==
    LET cols == Columns(fit)
    IN  [j \in 1..Len(cols) |->
            IF cols[j] \in text THEN Idf(fit.n, fit.df[cols[j]]) ELSE 0]

\* build_index: content_metadata = {} and then one assignment per document.
RECURSIVE MetadataOf(_)
MetadataOf(documents) ==
    IF documents = <<>> THEN <<>>
    ELSE DictPut(MetadataOf(SubSeq(documents, 1, Len(documents) - 1)),
                 documents[Len(documents)].id, documents[Len(documents)])

\* build_index: one text per document, in list order.
TextsOf(documents) == [i \in 1..Len(documents) |-> documents[i].content]

\* build_index: does the call end in fit_transform's exception?
BuildIndexRaises(documents) ==
    documents # <<>> /\ FitRaises(TextsOf(documents))

\* build_index: content_metadata after the call (replaced before the fit).
BuildIndexMetadata(meta, documents) == MetadataOf(documents)

\* build_index: tfidf_matrix after the call (assigned only after a fit that
\* succeeded).
BuildIndexMatrix(matrix, documents) ==
    IF documents = <<>> \/ BuildIndexRaises(documents) THEN matrix
    ELSE [present |-> TRUE, fit |-> FitOf(TextsOf(documents)),
          rows |-> TextsOf(documents)]

\* build_index: the vectorizers the call can leave.  A fit that raises
\* leaves the old vocabulary; whether the vectorizer can still transform
\* depends on the sklearn release (recent ones replace the idf transformer
\* before counting the vocabulary).
BuildIndexVectorizers(vectorizer, documents) ==
    IF documents = <<>> THEN {vectorizer}
    ELSE IF BuildIndexRaises(documents)
         THEN {vectorizer, [vectorizer EXCEPT !.fitted = FALSE]}
         ELSE {FitOf(TextsOf(documents))}

\* KeywordSearch.search
KeywordSearchOutcome(vectorizer, matrix, meta, query, top_k, min_score) ==
    LET qv == TfidfVector(vectorizer, query)
        scored == [i \in 1..Len(matrix.rows) |->
                     [idx |-> i,
                      score |-> CosineSimilarity(qv, TfidfVector(matrix.fit, matrix.rows[i]))]]
        kept == SelectSeq(scored, LAMBDA r : r.score >= min_score /\ r.idx <= Len(meta))
        results == [i \in 1..Len(kept) |->
                     [content_id |-> meta[kept[i].idx].k,
                      content |-> meta[kept[i].idx].v.content,
                      score |-> kept[i].score]]
    IN  IF ~matrix.present THEN Found(<<>>)
        ELSE IF ~vectorizer.fitted
                \/ Len(Columns(vectorizer)) # Len(Columns(matrix.fit)) THEN Raised
        ELSE Found(Take(SortByScore(results), top_k))

\* ---------------------------------------------------- SemanticSearchEngine

\* query_embedding=None (or an empty list): falsy in Python.
NoEmbedding == <<>>

\* index_content: the add_embedding loop over content_list, stopped by the
\* first add_embedding that raises.  st is [embs, meta, raised].
RECURSIVE AddEmbeddings(_, _, _, _)
AddEmbeddings(dim, st, content_list, embeddings) ==
    IF content_list = <<>> \/ st.raised THEN st
    ELSE LET content == Head(content_list)
             id == content.id
         IN  IF id \notin DOMAIN embeddings
             THEN AddEmbeddings(dim, st, Tail(content_list), embeddings)
             ELSE AddEmbeddings(dim,
                    [embs |-> AddEmbeddingEmbeddings(dim, st.embs, id, embeddings[id]),
                     meta |-> AddEmbeddingMetadata(dim, st.meta, id, embeddings[id], content),
                     raised |-> AddEmbeddingRaises(dim, embeddings[id])],
                    Tail(content_list), embeddings)

\* index_content: is the embedding of some listed id of the wrong length?
HasWrongLength(dim, content_list, embeddings) ==
    \E i \in 1..Len(content_list) :
        /\ content_list[i].id \in DOMAIN embeddings
        /\ AddEmbeddingRaises(dim, embeddings[content_list[i].id])

\* index_content: the vector index after the call; a build_index that
\* raised ends the call before the first add_embedding.
IndexContentVector(dim, embs, meta, content_list, embeddings) ==
    IF BuildIndexRaises(content_list)
    THEN [embs |-> embs, meta |-> meta, raised |-> TRUE]
    ELSE AddEmbeddings(dim, [embs |-> embs, meta |-> meta, raised |-> FALSE],
                       content_list, embeddings)

\* _merge_results: vector_weight, keyword_weight, in tenths.
VectorWeight == 6
KeywordWeight == 4

\* _merge_results: combined_scores after the loop over vector_results.
RECURSIVE CombineVector(_, _)
CombineVector(combined, vector_results) ==
    IF vector_results = <<>> THEN combined
    ELSE CombineVector(
            DictPut(combined, Head(vector_results).content_id,
                    [result |-> Head(vector_results),
                     vector_score |-> Head(vector_results).score,
                     keyword_score |-> 0]),
            Tail(vector_results))

RECURSIVE CombineKeywordAppend(_, _)
CombineKeywordAppend(combined, keyword_results) ==
    IF keyword_results = <<>> THEN combined
    ELSE CombineKeywordAppend(
            Append(combined,
                   [k |-> Head(keyword_results).content_id,
                    v |-> [result |-> Head(keyword_results), vector_score |-> 0,
                           keyword_score |-> Head(keyword_results).score]]),
            Tail(keyword_results))

\* _merge_results: combined_scores after the loop over keyword_results.
RECURSIVE CombineKeyword(_, _)
CombineKeyword(combined, keyword_results) ==
    IF keyword_results = <<>> THEN combined
    ELSE LET r == Head(keyword_results)
         IN  CombineKeyword(
                IF DictHas(combined, r.content_id)
                THEN DictPut(combined, r.content_id,
                             [DictGet(combined, r.content_id)
                                EXCEPT !.keyword_score = r.score])
                ELSE DictPut(combined, r.content_id,
                             [result |-> r, vector_score |-> 0,
                              keyword_score |-> r.score]),
                Tail(keyword_results))

CombinedScoreSwapped(scores) ==
    scores.vector_score * KeywordWeight + scores.keyword_score * VectorWeight

\* _merge_results: the weighted score, in units of 1 / (10 * Scale).
CombinedScore(scores) ==
    scores.vector_score * VectorWeight + scores.keyword_score * KeywordWeight

\* _merge_results
MergeResults(vector_results, keyword_results, top_k) ==
    LET combined == CombineKeyword(CombineVector(<<>>, vector_results), keyword_results)
        final == [i \in 1..Len(combined) |->
                    [combined[i].v.result EXCEPT !.score = CombinedScore(combined[i].v)]]
    IN  Take(SortByScore(final), top_k)

\* SemanticSearchEngine.search, on the engine [embs, meta, vectorizer,
\* matrix, kwmeta].
SearchOutcome(e, search_type, query, query_embedding, top_k, min_score) ==
    LET keyword(k) == KeywordSearchOutcome(e.vectorizer, e.matrix, e.kwmeta,
                                           query, k, min_score)
        vector(k) == VectorSearchResults(e.embs, e.meta, query_embedding, k, min_score)
    IN  IF search_type = "vector" /\ query_embedding # NoEmbedding
        THEN Found(vector(top_k))
        ELSE IF search_type = "keyword" THEN keyword(top_k)
        ELSE IF search_type = "hybrid"
        THEN IF keyword(top_k * 2).err THEN Raised
             ELSE Found(MergeResults(
                    IF query_embedding # NoEmbedding THEN vector(top_k * 2) ELSE <<>>,
                    keyword(top_k * 2).results, top_k))
        ELSE keyword(top_k)

\* The engine as it stands.
Engine ==
    [embs |-> vs_embeddings, meta |-> vs_metadata, vectorizer |-> kw_vectorizer,
     matrix |-> kw_matrix, kwmeta |-> kw_metadata]

\* No build_index call is in progress.
NoBuild == [pc |-> "idle", n |-> 0]

\* No concurrent search call is in progress.
NoSearch == [pc |-> "idle"]

\* ---------------------------------------------------------- save and load
\* base_path holds vector_index.json and keyword_index.pkl.  A file is what
\* open() and the parser find of it: whether it exists, whether it parses,
\* the top-level keys it has, and their values.

\* No file at the path.
NoFile == [exists |-> FALSE]

\* base_path before any save.
NoFiles == [vector |-> NoFile, keyword |-> NoFile, engine |-> NoFile]

VectorKeys == {"dimension", "embeddings", "metadata"}

KeywordKeys == {"vectorizer", "tfidf_matrix", "metadata"}

\* json.dump writes a dict's int keys as strings.
JsonKey(id) == ToString(id)

\* load_index: int(k) of a key of the file.
IntOfKey(k) == CHOOSE id \in Ids : ToString(id) = k

\* json.dump of a dict keyed by content id, in dict order.
JsonDict(d) == [i \in 1..Len(d) |-> [k |-> JsonKey(d[i].k), v |-> d[i].v]]

\* load_index: {int(k): v for k, v in ...items()}, in the file's order.
LoadedDict(j) == [i \in 1..Len(j) |-> [k |-> IntOfKey(j[i].k), v |-> j[i].v]]

\* A dict written with its keys in ascending order.
SortedDict(d) ==
    [i \in 1..Len(d) |->
        d[CHOOSE n \in 1..Len(d) :
            Cardinality({m \in 1..Len(d) : d[m].k < d[n].k}) = i - 1]]

VectorFileSortedKeys(dim, embs, meta) ==
    [exists |-> TRUE, parses |-> TRUE, keys |-> VectorKeys, dimension |-> dim,
     embeddings |-> JsonDict(SortedDict(embs)), metadata |-> JsonDict(SortedDict(meta))]

\* VectorSearch.save_index: the file json.dump writes.
VectorFile(dim, embs, meta) ==
    [exists |-> TRUE, parses |-> TRUE, keys |-> VectorKeys, dimension |-> dim,
     embeddings |-> JsonDict(embs), metadata |-> JsonDict(meta)]

\* KeywordSearch.save_index: the file pickle.dump writes.
KeywordFile(vectorizer, matrix, meta) ==
    [exists |-> TRUE, parses |-> TRUE, keys |-> KeywordKeys,
     vectorizer |-> vectorizer, tfidf_matrix |-> matrix, metadata |-> meta]

\* A vector-index file saved by an index of another dimension.
ForeignVectorFile ==
    VectorFile(EmbeddingDimension + 1,
               <<[k |-> 1, v |-> [j \in 1..(EmbeddingDimension + 1) |-> 1]]>>,
               <<[k |-> 1, v |-> [id |-> 1, content |-> {"alice"}]]>>)

\* A file cut short or overwritten: it no longer parses.
Corrupt(f) == [f EXCEPT !.parses = FALSE]

\* A file that parses but lacks one top-level key.
Without(f, key) == [f EXCEPT !.keys = @ \ {key}]

\* What a load can find where f was saved: f itself, nothing, f damaged,
\* or (for the vector index) a file of another configuration.
VectorFound(f) ==
    {f, NoFile, ForeignVectorFile}
        \cup (IF f.exists
              THEN {Corrupt(f)} \cup {Without(f, key) : key \in VectorKeys}
              ELSE {})

KeywordFound(f) ==
    {f, NoFile}
        \cup (IF f.exists
              THEN {Corrupt(f)} \cup {Without(f, key) : key \in KeywordKeys}
              ELSE {})

\* open() and json.load / pickle.load succeed.
Readable(found) == found.exists /\ found.parses

\* VectorSearch.load_index: does the call raise?
VectorLoadRaises(found) == ~Readable(found) \/ found.keys # VectorKeys

\* VectorSearch.load_index: embedding_dimension after the call (the first
\* assignment).
VectorLoadDimension(dim, found) ==
    IF Readable(found) /\ "dimension" \in found.keys THEN found.dimension ELSE dim

\* VectorSearch.load_index: embeddings after the call (the second).
VectorLoadEmbeddings(embs, found) ==
    IF Readable(found) /\ {"dimension", "embeddings"} \subseteq found.keys
    THEN LoadedDict(found.embeddings) ELSE embs

\* VectorSearch.load_index: content_metadata after the call (the third).
VectorLoadMetadata(meta, found) ==
    IF Readable(found) /\ found.keys = VectorKeys
    THEN LoadedDict(found.metadata) ELSE meta

\* KeywordSearch.load_index: does the call raise?
KeywordLoadRaises(found) == ~Readable(found) \/ found.keys # KeywordKeys

\* KeywordSearch.load_index: vectorizer after the call (the first assignment).
KeywordLoadVectorizer(vectorizer, found) ==
    IF Readable(found) /\ "vectorizer" \in found.keys THEN found.vectorizer
    ELSE vectorizer

\* KeywordSearch.load_index: tfidf_matrix after the call (the second).
KeywordLoadMatrix(matrix, found) ==
    IF Readable(found) /\ {"vectorizer", "tfidf_matrix"} \subseteq found.keys
    THEN found.tfidf_matrix ELSE matrix

\* KeywordSearch.load_index: content_metadata after the call (the third).
KeywordLoadMetadata(meta, found) ==
    IF Readable(found) /\ found.keys = KeywordKeys THEN found.metadata ELSE meta

\* What a call records of the file it found: was it missing, was it the
\* file as saved, and the dimension it states (0: none readable).
FoundVector(found) ==
    [missing |-> ~found.exists, intact |-> found = disk.vector /\ found.exists,
     dimension |-> IF Readable(found) /\ "dimension" \in found.keys
                   THEN found.dimension ELSE 0]

\* The index that loads has the dimension of the index that saved.
SameConfiguration ==
    disk.engine.exists /\ embedding_dimension = disk.engine.dimension

FoundKeyword(found) ==
    [missing |-> ~found.exists, intact |-> found = disk.keyword /\ found.exists]

\* ------------------------------------------------------------------- Init

Init ==
    /\ indexed_content = <<>>
    /\ changes_since_rebuild = 0
    /\ mutations = 0
    /\ rebuilds = 0
    /\ embedding_dimension = EmbeddingDimension
    /\ vs_embeddings = <<>>
    /\ vs_metadata = <<>>
    /\ kw_vectorizer = Unfitted
    /\ kw_matrix = NoMatrix
    /\ kw_metadata = <<>>
    /\ ret = Idle
    /\ builder = NoBuild
    /\ searcher = NoSearch
    /\ disk = NoFiles
    /\ loads = 0
    /\ sessions = <<>>
    /\ jobs = <<>>
    /\ runners = <<>>

\* ------------------------------------------------------------ call inputs

\* Largest top_k a search is called with.
MaxTopK == 2

ContentLists == UNION {[1..n -> Docs] : n \in 0..MaxBatch}

\* The lists index_content is fed with: one content dict per id, as
\* export_content_metadata yields them.
ExportLists ==
    {l \in ContentLists : \A i, j \in 1..Len(l) : l[i].id = l[j].id => i = j}

ListIds(content_list) == {content_list[i].id : i \in 1..Len(content_list)}

\* The text of the last document of the list that carries the id.
ListText(content_list, id) ==
    LET last == CHOOSE i \in 1..Len(content_list) :
                    /\ content_list[i].id = id
                    /\ \A j \in (i + 1)..Len(content_list) : content_list[j].id # id
    IN  content_list[last].content

\* The embeddings dicts index_content is called with: generated embeddings
\* for some of the list's ids, at most one of them of the wrong length.
EmbeddingDicts(content_list) ==
    {[id \in S |-> IF id \in W THEN WrongLengthVector
                   ELSE GenerateEmbedding(ListText(content_list, id))] :
        <<S, W>> \in {p \in (SUBSET ListIds(content_list)) \X (SUBSET ListIds(content_list)) :
                        p[2] \subseteq p[1] /\ Cardinality(p[2]) <= 1}}

SearchTypes == {"vector", "keyword", "hybrid"}

QueryTexts == Texts \ {{}}

QueryEmbeddings ==
    {NoEmbedding, GenerateEmbedding({"alice"}), GenerateEmbedding({"bob"})}

\* min_score: the default 0.1, and 0.75.
MinScores == {Scale \div 10, (3 * Scale) \div 4}

\* ----------------------------------------------------------- engine calls

\* VectorSearch.add_embedding
AddEmbedding(id, embedding, doc) ==
    /\ ret = Idle
    /\ vs_embeddings' =
          AddEmbeddingEmbeddings(embedding_dimension, vs_embeddings, id, embedding)
    /\ vs_metadata' =
          AddEmbeddingMetadata(embedding_dimension, vs_metadata, id, embedding, doc)
    /\ ret' = [op |-> "add_embedding", id |-> id, embedding |-> embedding,
               raised |-> AddEmbeddingRaises(embedding_dimension, embedding)]
    /\ UNCHANGED <<indexVars, embedding_dimension, keywordVars, threadVars, storeVars, serviceVars>>

\* VectorSearch.remove_embedding
RemoveEmbedding(id) ==
    /\ ret = Idle
    /\ vs_embeddings' = RemoveEmbeddingResult(vs_embeddings, id)
    /\ vs_metadata' = RemoveEmbeddingResult(vs_metadata, id)
    /\ ret' = [op |-> "remove_embedding", id |-> id, raised |-> FALSE]
    /\ UNCHANGED <<indexVars, embedding_dimension, keywordVars, threadVars, storeVars, serviceVars>>

\* KeywordSearch.build_index
BuildIndex(documents) ==
    /\ ret = Idle
    /\ kw_metadata' = BuildIndexMetadata(kw_metadata, documents)
    /\ kw_matrix' = BuildIndexMatrix(kw_matrix, documents)
    /\ kw_vectorizer' \in BuildIndexVectorizers(kw_vectorizer, documents)
    /\ ret' = [op |-> "build_index", n |-> Len(documents),
               raised |-> BuildIndexRaises(documents)]
    /\ UNCHANGED <<indexVars, vectorVars, threadVars, storeVars, serviceVars>>

\* SemanticSearchEngine.index_content
IndexContent(content_list, embeddings) ==
    LET v == IndexContentVector(embedding_dimension, vs_embeddings, vs_metadata,
                                content_list, embeddings)
    IN  /\ ret = Idle
        /\ kw_metadata' = BuildIndexMetadata(kw_metadata, content_list)
        /\ kw_matrix' = BuildIndexMatrix(kw_matrix, content_list)
        /\ kw_vectorizer' \in BuildIndexVectorizers(kw_vectorizer, content_list)
        /\ vs_embeddings' = v.embs
        /\ vs_metadata' = v.meta
        /\ ret' = [op |-> "index_content", raised |-> v.raised,
                   complete |-> ListIds(content_list) \subseteq DOMAIN embeddings,
                   mismatch |-> HasWrongLength(embedding_dimension, content_list,
                                               embeddings)]
        /\ UNCHANGED <<indexVars, embedding_dimension, threadVars, storeVars, serviceVars>>

\* SemanticSearchEngine.search
Search(search_type, query, query_embedding, top_k, min_score) ==
    /\ ret = Idle
    /\ ret' = [op |-> "search", search_type |-> search_type, query |-> query,
               query_embedding |-> query_embedding, top_k |-> top_k,
               min_score |-> min_score,
               out |-> SearchOutcome(Engine, search_type, query, query_embedding,
                                     top_k, min_score)]
    /\ UNCHANGED <<indexVars, engineVars, threadVars, storeVars, serviceVars>>

\* VectorSearch.search, called directly
VectorSearchCall(query_embedding, top_k, min_score) ==
    /\ ret = Idle
    /\ ret' = [op |-> "vector_search", query_embedding |-> query_embedding,
               top_k |-> top_k, min_score |-> min_score,
               out |-> Found(VectorSearchResults(vs_embeddings, vs_metadata,
                                                 query_embedding, top_k, min_score))]
    /\ UNCHANGED <<indexVars, engineVars, threadVars, storeVars, serviceVars>>

\* KeywordSearch.search, called directly
KeywordSearchCall(query, top_k, min_score) ==
    /\ ret = Idle
    /\ ret' = [op |-> "keyword_search", query |-> query,
               top_k |-> top_k, min_score |-> min_score,
               out |-> KeywordSearchOutcome(kw_vectorizer, kw_matrix, kw_metadata,
                                            query, top_k, min_score)]
    /\ UNCHANGED <<indexVars, engineVars, threadVars, storeVars, serviceVars>>

\* SemanticSearchEngine.save_indexes: save_index of the vector index, then
\* of the keyword index.
SaveIndexes ==
    /\ ret = Idle
    /\ disk' = [vector |-> VectorFile(embedding_dimension, vs_embeddings, vs_metadata),
                keyword |-> KeywordFile(kw_vectorizer, kw_matrix, kw_metadata),
                engine |-> [exists |-> TRUE, dimension |-> embedding_dimension,
                            engine |-> Engine]]
    /\ ret' = [op |-> "save_indexes", raised |-> FALSE]
    /\ UNCHANGED <<indexVars, engineVars, threadVars, loads, serviceVars>>

\* VectorSearch.load_index
VectorLoad(found) ==
    /\ ret = Idle
    /\ embedding_dimension' = VectorLoadDimension(embedding_dimension, found)
    /\ vs_embeddings' = VectorLoadEmbeddings(vs_embeddings, found)
    /\ vs_metadata' = VectorLoadMetadata(vs_metadata, found)
    /\ ret' = [op |-> "vector_load", raised |-> VectorLoadRaises(found),
               vector |-> FoundVector(found),
               same |-> SameConfiguration]
    /\ loads < MaxLoads
    /\ loads' = loads + 1
    /\ UNCHANGED <<indexVars, keywordVars, threadVars, disk, serviceVars>>

\* KeywordSearch.load_index
KeywordLoad(found) ==
    /\ ret = Idle
    /\ kw_vectorizer' = KeywordLoadVectorizer(kw_vectorizer, found)
    /\ kw_matrix' = KeywordLoadMatrix(kw_matrix, found)
    /\ kw_metadata' = KeywordLoadMetadata(kw_metadata, found)
    /\ ret' = [op |-> "keyword_load", raised |-> KeywordLoadRaises(found),
               keyword |-> FoundKeyword(found)]
    /\ loads < MaxLoads
    /\ loads' = loads + 1
    /\ UNCHANGED <<indexVars, vectorVars, threadVars, disk, serviceVars>>

\* SemanticSearchEngine.load_indexes: each file is loaded if it exists, the
\* vector index first; an exception of the first load ends the call.
LoadIndexes(vector_found, keyword_found) ==
    LET vector_raises == vector_found.exists /\ VectorLoadRaises(vector_found)
        keyword_loads == ~vector_raises /\ keyword_found.exists
    IN  /\ ret = Idle
        /\ embedding_dimension' = VectorLoadDimension(embedding_dimension, vector_found)
        /\ vs_embeddings' = VectorLoadEmbeddings(vs_embeddings, vector_found)
        /\ vs_metadata' = VectorLoadMetadata(vs_metadata, vector_found)
        /\ kw_vectorizer' = IF keyword_loads
                            THEN KeywordLoadVectorizer(kw_vectorizer, keyword_found)
                            ELSE kw_vectorizer
        /\ kw_matrix' = IF keyword_loads THEN KeywordLoadMatrix(kw_matrix, keyword_found)
                        ELSE kw_matrix
        /\ kw_metadata' = IF keyword_loads
                          THEN KeywordLoadMetadata(kw_metadata, keyword_found)
                          ELSE kw_metadata
        /\ ret' = [op |-> "load_indexes",
                   raised |-> vector_raises
                                \/ (keyword_loads /\ KeywordLoadRaises(keyword_found)),
                   vector |-> FoundVector(vector_found),
                   keyword |-> FoundKeyword(keyword_found),
                   same |-> SameConfiguration]
        /\ loads < MaxLoads
        /\ loads' = loads + 1
        /\ UNCHANGED <<indexVars, threadVars, disk, serviceVars>>

\* ------------------------------------------------------- VectorSearch alone

NextVector ==
    \/ \E doc \in Docs : AddEmbedding(doc.id, GenerateEmbedding(doc.content), doc)
    \/ \E doc \in Docs : AddEmbedding(doc.id, WrongLengthVector, doc)
    \/ \E id \in Ids : RemoveEmbedding(id)
    \/ \E query_embedding \in QueryEmbeddings \ {NoEmbedding},
          top_k \in 1..MaxTopK, min_score \in MinScores :
            VectorSearchCall(query_embedding, top_k, min_score)
    \/ Return

SpecVector == Init /\ [][NextVector]_vars

\* ------------------------------------------------------ KeywordSearch alone

NextKeyword ==
    \/ \E documents \in ContentLists : BuildIndex(documents)
    \/ \E query \in QueryTexts, top_k \in 1..MaxTopK, min_score \in MinScores :
            KeywordSearchCall(query, top_k, min_score)
    \/ Return

SpecKeyword == Init /\ [][NextKeyword]_vars

\* ------------------------------------------------- the engine over both

NextEngine ==
    \/ \E content_list \in ExportLists :
         \E embeddings \in EmbeddingDicts(content_list) :
            IndexContent(content_list, embeddings)
    \/ \E search_type \in SearchTypes, query \in QueryTexts,
          query_embedding \in QueryEmbeddings,
          top_k \in 1..MaxTopK, min_score \in MinScores :
            Search(search_type, query, query_embedding, top_k, min_score)
    \/ Return

SpecEngine == Init /\ [][NextEngine]_vars

\* ------------------------------- the engine, its sub-indexes driven directly
\* vector_search and keyword_search are public attributes of the engine:
\* embeddings are added and removed and the keyword index is built on them
\* directly, and the engine is searched in every mode.

NextParts ==
    \/ \E doc \in Docs : AddEmbedding(doc.id, GenerateEmbedding(doc.content), doc)
    \/ \E id \in Ids : RemoveEmbedding(id)
    \/ \E documents \in ContentLists : BuildIndex(documents)
    \/ \E search_type \in SearchTypes, query \in QueryTexts,
          query_embedding \in QueryEmbeddings :
            Search(search_type, query, query_embedding, MaxTopK, Scale \div 10)
    \/ Return

SpecParts == Init /\ [][NextParts]_vars

\* ------------------------------------------- the indexer and its manager

NextIndex ==
    \/ \E doc \in Docs : AddContent(doc.id, doc.content)
    \/ \E id \in Ids, source \in Docs : UpdateContent(id, source)
    \/ \E id \in Ids : RemoveContent(id)
    \/ \E doc \in Docs : IndexerIndex(doc.id, doc.content)
    \/ \E id \in Ids, source \in Docs : IndexerUpdate(id, source)
    \/ \E id \in Ids : IndexerRemove(id)
    \/ \E content_list \in ContentLists : IndexerBatch(content_list)
    \/ Return

SpecIndex == Init /\ [][NextIndex]_vars

\* ------------------------------------------ the manager over the engine
\* The indexer's exports are what the engine is fed with ("for use with
\* vector search", "for search engines").  No code of the repository makes
\* the call; the manager holds no reference to the engine, so whoever owns
\* both makes it, when it chooses.

\* export_embeddings as the dict index_content looks ids up in.
ExportedEmbeddings(ic) == [id \in DictKeys(ic) |-> DictGet(ic, id).embedding]

\* index_content(export_content_metadata(), export_embeddings())
IndexExported ==
    IndexContent(ExportContentMetadata(indexed_content),
                 ExportedEmbeddings(indexed_content))

NextSystem ==
    \/ \E doc \in Docs : AddContent(doc.id, doc.content)
    \/ \E doc \in Docs : UpdateContent(doc.id, doc)
    \/ \E id \in Ids : RemoveContent(id)
    \/ IndexExported
    \/ Return

SpecSystem == Init /\ [][NextSystem]_vars

\* --------------------------------------------- the engine and its files

\* An engine is fed and saved, in any order and any number of times; then
\* come the loads, into the engine as it stands by then.

\* The embeddings dict that holds the generated embedding of every listed id.
FullEmbeddings(content_list) ==
    [id \in ListIds(content_list) |-> GenerateEmbedding(ListText(content_list, id))]

\* The documents the saved engines are fed: one of each id.
StoreDocs == {[id |-> 1, content |-> {"alice", "bob"}], [id |-> 2, content |-> {}]}

StoreLists == {l \in ExportLists : \A i \in 1..Len(l) : l[i] \in StoreDocs}

NextStore ==
    \/ \E content_list \in StoreLists :
            /\ loads = 0
            /\ IndexContent(content_list, FullEmbeddings(content_list))
    \/ loads = 0 /\ SaveIndexes
    \/ \E vector_found \in VectorFound(disk.vector),
          keyword_found \in KeywordFound(disk.keyword) :
            LoadIndexes(vector_found, keyword_found)
    \/ \E found \in VectorFound(disk.vector) : VectorLoad(found)
    \/ \E found \in KeywordFound(disk.keyword) : KeywordLoad(found)
    \/ Return

SpecStore == Init /\ [][NextStore]_vars

\* ------------------------------------------------- keyword extraction alone

\* The keywords kw<a> .. kw<b>, each once.
Run(a, b) == [i \in 1..(b - a + 1) |-> "kw" \o ToString(a + i - 1)]

\* A stop word in upper case, a short word, and two repeats of keywords of
\* the run, one of them in upper case.
NoiseWords == {"The", "ab", "Kw1", "kw2"}

Noises == UNION {[1..n -> NoiseWords] : n \in 0..MaxNoise}

\* A run of distinct keywords with other words somewhere inside it.
KeywordTexts ==
    {Run(1, m) \o noise \o Run(m + 1, n) :
        <<m, n, noise>> \in {t \in (0..MaxRun) \X (0..MaxRun) \X Noises : t[1] <= t[2]}}

\* ContentIndexer._extract_keywords
ExtractKeywordsCall(text) ==
    /\ ret = Idle
    /\ ret' = [op |-> "extract_keywords", text |-> text,
               keywords |-> ExtractKeywords(text)]
    /\ UNCHANGED <<indexVars, engineVars, threadVars, storeVars, serviceVars>>

NextExtract ==
    \/ \E text \in KeywordTexts : ExtractKeywordsCall(text)
    \/ Return

SpecExtract == Init /\ [][NextExtract]_vars

\* ------------------------------------------------------------- ChatService
\* A user message is the sequence of its lower-case words; a ChatMessage is
\* [role, content], the content of an assistant message being the kind of
\* response it carries.

SessionIds == {"s1", "s2"}

\* The user messages process_message is called with.
ChatMessages ==
    {<<"weather">>, <<"who", "is", "alice">>, <<"the", "cto">>,
     <<"engineering", "team">>}

\* KnowledgeService.check_scope: scope_keywords and org_terms.
ScopeKeywords ==
    {"who", "what", "where", "when", "how",
     "ceo", "cto", "director", "manager", "lead", "head",
     "team", "staff", "employee", "member", "person",
     "role", "position", "department", "contact",
     "email", "phone", "experience", "background",
     "bio", "biography", "profile",
     "company", "organization", "business", "firm", "corporation"}

\* KnowledgeService.check_scope: is some keyword or term in the query?  (The
\* code tests substrings; no word of ChatMessages holds a keyword without
\* being one.)
CheckScope(query) == \E i \in 1..Len(query) : query[i] \in ScopeKeywords

\* The words of ws occur in the query one after another, and a word follows.
Followed(query, ws) ==
    \E i \in 1..Len(query) :
        /\ i + Len(ws) <= Len(query)
        /\ \A j \in 1..Len(ws) : query[i + j - 1] = ws[j]

RoleWords == {"ceo", "cto", "cfo", "director", "manager"}

DepartmentWords == {"engineering", "marketing", "sales", "hr", "finance", "operations"}

\* _classify_query: person_patterns (no message holds a possessive).
PersonPattern(query) ==
    \/ Followed(query, <<"who", "is">>)
    \/ Followed(query, <<"find">>)
    \/ Followed(query, <<"tell", "me", "about">>)

\* _classify_query: role_patterns.
RolePattern(query) ==
    \/ \E i \in 1..Len(query) : query[i] \in RoleWords
    \/ Followed(query, <<"head", "of">>)
    \/ Followed(query, <<"lead">>)

\* _classify_query: department_patterns.
DepartmentPattern(query) ==
    \/ \E i \in 1..(Len(query) - 1) :
          query[i] \in DepartmentWords /\ query[i + 1] = "team"
    \/ Followed(query, <<"people", "in">>)
    \/ \E i \in 2..Len(query) : query[i] = "department"

\* _classify_query
ClassifyQuery(query) ==
    IF PersonPattern(query) THEN "person_lookup"
    ELSE IF RolePattern(query) THEN "role_lookup"
    ELSE IF DepartmentPattern(query) THEN "department_lookup"
    ELSE "general_search"

Answer(type) == [raised |-> FALSE, type |-> type]

\* _handle_general_search: what search_knowledge finds is the knowledge
\* base's matter; search_knowledge itself never raises.
HandleGeneralSearch(query) ==
    {Answer("search_found"), Answer("search_results"), Answer("no_results")}

\* _handle_person_lookup: the profile of the name if there is one.
HandlePersonLookup(query) ==
    (IF \/ Followed(query, <<"who", "is">>)
        \/ Followed(query, <<"find">>)
        \/ Followed(query, <<"about">>)
     THEN {Answer("person_found")} ELSE {})
        \cup HandleGeneralSearch(query)

\* _handle_role_lookup: with a role found in the query the handler calls
\* knowledge_service.get_profiles_by_role, which KnowledgeService does not
\* define: AttributeError.
HandleRoleLookup(query) ==
    IF \/ Followed(query, <<"who", "is", "the">>)
       \/ \E i \in 1..Len(query) : query[i] \in RoleWords
       \/ Followed(query, <<"head", "of">>)
    THEN {[raised |-> TRUE, type |-> "error"]}
    ELSE HandleGeneralSearch(query)

\* _handle_department_lookup
HandleDepartmentLookup(query) ==
    {Answer("department_found")} \cup HandleGeneralSearch(query)

\* _process_knowledge_query: the outcomes the knowledge base allows.
ProcessKnowledgeQuery(query) ==
    CASE ClassifyQuery(query) = "person_lookup" -> HandlePersonLookup(query)
      [] ClassifyQuery(query) = "role_lookup" -> HandleRoleLookup(query)
      [] ClassifyQuery(query) = "department_lookup" -> HandleDepartmentLookup(query)
      [] OTHER -> HandleGeneralSearch(query)

\* process_message: the outcomes of the try block.
ProcessOutcomes(user_message) ==
    IF ~CheckScope(user_message) THEN {Answer("out_of_scope")}
    ELSE ProcessKnowledgeQuery(user_message)

UserMessage(content) == [role |-> "user", content |-> content]

AssistantMessage(kind) == [role |-> "assistant", content |-> kind]

\* create_session: the messages of a new session.
NewSession == <<AssistantMessage("greeting")>>

\* get_session
GetSession(ss, session_id) ==
    IF DictHas(ss, session_id) THEN DictGet(ss, session_id) ELSE <<>>

\* get_active_sessions
GetActiveSessions(ss) == [i \in 1..Len(ss) |-> ss[i].k]

ProcessMessageMessagesSilentError(messages, user_message, outcome) ==
    IF outcome.raised THEN Append(messages, UserMessage(user_message))
    ELSE Append(Append(messages, UserMessage(user_message)),
                AssistantMessage(outcome.type))

\* process_message: the session's messages after the call; the assistant
\* message is the response, or the apology of the except block.
ProcessMessageMessages(messages, user_message, outcome) ==
    Append(Append(messages, UserMessage(user_message)),
           AssistantMessage(outcome.type))

ClearSessionAll(ss, session_id) == IF DictHas(ss, session_id) THEN <<>> ELSE ss

\* clear_session: the sessions after the call.
ClearSessionResult(ss, session_id) ==
    IF DictHas(ss, session_id) THEN DictDel(ss, session_id) ELSE ss

\* The messages all live sessions hold.
RECURSIVE TotalMessages(_)
TotalMessages(ss) ==
    IF ss = <<>> THEN 0 ELSE Len(Head(ss).v) + TotalMessages(Tail(ss))

\* ChatService.create_session
CreateSession(session_id) ==
    /\ ret = Idle
    /\ TotalMessages(DictDel(sessions, session_id)) + 1 <= MaxMessages
    /\ sessions' = DictPut(sessions, session_id, NewSession)
    /\ ret' = [op |-> "create_session", session_id |-> session_id]
    /\ UNCHANGED <<indexVars, engineVars, threadVars, storeVars, jobVars>>

\* ChatService.process_message
ProcessMessage(session_id, user_message) ==
    LET session == IF DictHas(sessions, session_id)
                   THEN DictGet(sessions, session_id) ELSE NewSession
    IN  /\ ret = Idle
        /\ TotalMessages(DictDel(sessions, session_id)) + Len(session) + 2 <= MaxMessages
        /\ \E outcome \in ProcessOutcomes(user_message) :
              /\ sessions' = DictPut(sessions, session_id,
                                ProcessMessageMessages(session, user_message, outcome))
              /\ ret' = [op |-> "process_message", session_id |-> session_id,
                         user_message |-> user_message,
                         created |-> ~DictHas(sessions, session_id),
                         type |-> outcome.type,
                         in_scope |-> ~outcome.raised /\ outcome.type # "out_of_scope"]
        /\ UNCHANGED <<indexVars, engineVars, threadVars, storeVars, jobVars>>

\* ChatService.clear_session
ClearSession(session_id) ==
    /\ ret = Idle
    /\ sessions' = ClearSessionResult(sessions, session_id)
    /\ ret' = [op |-> "clear_session", session_id |-> session_id,
               result |-> DictHas(sessions, session_id)]
    /\ UNCHANGED <<indexVars, engineVars, threadVars, storeVars, jobVars>>

NextChat ==
    \/ \E session_id \in SessionIds : CreateSession(session_id)
    \/ \E session_id \in SessionIds, user_message \in ChatMessages :
          ProcessMessage(session_id, user_message)
    \/ \E session_id \in SessionIds : ClearSession(session_id)
    \/ Return

SpecChat == Init /\ [][NextChat]_vars

\* --------------------------------------------------------- ScrapingService
\* A job is [job_type, status] under its job id.  The run coroutines are
\* asyncio tasks: one runs up to its first await (the scraper's session)
\* and gives way to other calls and tasks before it goes on.

JobTypes == {"profile", "discovery"}

\* The job ids the calls are made with: those created and one unknown.
JobIds == 0..MaxJobs

\* ScrapingJob.__init__
NewJob(job_type) == [job_type |-> job_type, status |-> "pending"]

\* create_scraping_job: the id ends in len(self.jobs), which tells the jobs
\* apart as long as none is removed.
NewJobId(js) == Len(js)

JobStatus(js, job_id) == DictGet(js, job_id).status

WithStatus(js, job_id, status) ==
    DictPut(js, job_id, [DictGet(js, job_id) EXCEPT !.status = status])

\* run_profile_scraping_job / run_content_discovery_job: job.status =
\* "running", whatever the status was.
RunStartJobs(js, job_id) == WithStatus(js, job_id, "running")

\* cancel_job: does the call cancel the job?
CancelJobResult(js, job_id) == DictHas(js, job_id) /\ JobStatus(js, job_id) = "pending"

\* cancel_job: the jobs after the call.
CancelJobJobs(js, job_id) ==
    IF CancelJobResult(js, job_id) THEN WithStatus(js, job_id, "cancelled") ELSE js

\* ScrapingService.create_scraping_job
CreateScrapingJob(job_type) ==
    /\ ret = Idle
    /\ Len(jobs) < MaxJobs
    /\ jobs' = DictPut(jobs, NewJobId(jobs), NewJob(job_type))
    /\ runners' = DictPut(runners, NewJobId(jobs), 0)
    /\ ret' = [op |-> "create_scraping_job", job_id |-> NewJobId(jobs)]
    /\ UNCHANGED <<indexVars, engineVars, threadVars, storeVars, chatVars>>

\* ScrapingService.run_job, from the call to the first await of the job's
\* coroutine: ValueError for an unknown id, else the job is set running.
RunJobStart(job_id) ==
    /\ ret = Idle
    /\ IF ~DictHas(jobs, job_id)
       THEN /\ ret' = [op |-> "run_job", job_id |-> job_id, raised |-> TRUE]
            /\ UNCHANGED jobVars
       ELSE /\ DictGet(runners, job_id) < MaxRuns
            /\ jobs' = RunStartJobs(jobs, job_id)
            /\ runners' = DictPut(runners, job_id, DictGet(runners, job_id) + 1)
            /\ UNCHANGED ret
    /\ UNCHANGED <<indexVars, engineVars, threadVars, storeVars, chatVars>>

\* The rest of a run coroutine: the scraping ends or raises, the job is
\* set completed or failed; a completed discovery job has created a
\* profile job for each of the sources found (here none or one).
RunJobFinish(job_id, status, sources) ==
    LET done == WithStatus(jobs, job_id, status)
        create == /\ status = "completed"
                  /\ DictGet(jobs, job_id).job_type = "discovery"
                  /\ sources = 1
    IN  /\ ret = Idle
        /\ DictHas(runners, job_id)
        /\ DictGet(runners, job_id) > 0
        /\ create => Len(jobs) < MaxJobs
        /\ jobs' = IF create THEN DictPut(done, NewJobId(done), NewJob("profile"))
                   ELSE done
        /\ runners' = LET less == DictPut(runners, job_id, DictGet(runners, job_id) - 1)
                      IN  IF create THEN DictPut(less, NewJobId(done), 0) ELSE less
        /\ ret' = [op |-> "run_job", job_id |-> job_id, raised |-> FALSE,
                   status |-> status]
        /\ UNCHANGED <<indexVars, engineVars, threadVars, storeVars, chatVars>>

\* ScrapingService.cancel_job
CancelJob(job_id) ==
    /\ ret = Idle
    /\ jobs' = CancelJobJobs(jobs, job_id)
    /\ ret' = [op |-> "cancel_job", job_id |-> job_id,
               result |-> CancelJobResult(jobs, job_id)]
    /\ UNCHANGED <<indexVars, engineVars, threadVars, storeVars, chatVars, runners>>

NextJobs ==
    \/ \E job_type \in JobTypes : CreateScrapingJob(job_type)
    \/ \E job_id \in JobIds : RunJobStart(job_id)
    \/ \E job_id \in JobIds, status \in {"completed", "failed"}, sources \in {0, 1} :
          RunJobFinish(job_id, status, sources)
    \/ \E job_id \in JobIds : CancelJob(job_id)
    \/ Return

SpecJobs == Init /\ [][NextJobs]_vars

\* ------------------------------------- a search racing a keyword build
\* build_index and KeywordSearch.search take no lock: run in two threads,
\* their reads and writes of vectorizer, tfidf_matrix and content_metadata
\* interleave statement by statement.

\* The keyword index as it stands.
KeywordIndex ==
    [vectorizer |-> kw_vectorizer, matrix |-> kw_matrix, meta |-> kw_metadata]

\* The keyword indexes a whole build_index(documents) leaves behind.
BuiltIndexes(documents) ==
    {[vectorizer |-> v, matrix |-> BuildIndexMatrix(kw_matrix, documents),
      meta |-> BuildIndexMetadata(kw_metadata, documents)] :
        v \in BuildIndexVectorizers(kw_vectorizer, documents)}

\* build_index, lines 127-128: texts = [], self.content_metadata = {}
BuildStart(documents) ==
    /\ builder.pc = "idle"
    /\ builder.n < MaxBuilds
    /\ kw_metadata' = <<>>
    /\ builder' = [pc |-> IF documents = <<>> THEN "done" ELSE "loop",
                   documents |-> documents, i |-> 0, n |-> builder.n + 1,
                   before |-> KeywordIndex, after |-> BuiltIndexes(documents)]
    /\ searcher' = IF searcher.pc \in {"idle", "done"} THEN searcher
                   ELSE [searcher EXCEPT !.whole = @ \cup BuiltIndexes(documents)]
    /\ UNCHANGED <<indexVars, vectorVars, kw_vectorizer, kw_matrix, ret, storeVars, serviceVars>>

\* build_index, lines 130-134: one pass of the loop over documents
BuildStoreDocument ==
    /\ builder.pc = "loop"
    /\ LET doc == builder.documents[builder.i + 1]
       IN  kw_metadata' = DictPut(kw_metadata, doc.id, doc)
    /\ builder' = [builder EXCEPT
                     !.i = @ + 1,
                     !.pc = IF builder.i + 1 = Len(builder.documents) THEN "fit" ELSE "loop"]
    /\ UNCHANGED <<indexVars, vectorVars, kw_vectorizer, kw_matrix, ret, searcher, storeVars, serviceVars>>

\* build_index, line 137: fit_transform fits self.vectorizer in place
BuildFit ==
    /\ builder.pc = "fit"
    /\ kw_vectorizer' \in BuildIndexVectorizers(kw_vectorizer, builder.documents)
    /\ builder' = [builder EXCEPT
                     !.pc = IF BuildIndexRaises(builder.documents) THEN "done" ELSE "assign"]
    /\ UNCHANGED <<indexVars, vectorVars, kw_matrix, kw_metadata, ret, searcher, storeVars, serviceVars>>

\* build_index, line 137: self.tfidf_matrix = the matrix fit_transform returned
BuildAssign ==
    /\ builder.pc = "assign"
    /\ kw_matrix' = BuildIndexMatrix(kw_matrix, builder.documents)
    /\ builder' = [builder EXCEPT !.pc = "done"]
    /\ UNCHANGED <<indexVars, vectorVars, kw_vectorizer, kw_metadata, ret, searcher, storeVars, serviceVars>>

\* build_index returns (or its exception reaches the caller)
BuildReturn ==
    /\ builder.pc = "done"
    /\ builder' = [pc |-> "idle", n |-> builder.n]
    /\ UNCHANGED <<indexVars, engineVars, ret, searcher, storeVars, serviceVars>>

\* The whole indexes a search starting now may be answered from: the one
\* that stands or, during a build, the one before it and the one it builds.
WholeIndexes ==
    IF builder.pc = "idle" THEN {KeywordIndex}
    ELSE {builder.before} \cup builder.after

\* search, lines 142-145: the None test, then vectorizer.transform([query])
SearchTransform(query, top_k, min_score) ==
    /\ searcher.pc = "idle"
    /\ searcher' =
          [pc |-> IF ~kw_matrix.present \/ ~kw_vectorizer.fitted THEN "done" ELSE "score",
           query |-> query, top_k |-> top_k, min_score |-> min_score,
           query_fit |-> kw_vectorizer,
           similarities |-> <<>>, idx |-> 0, results |-> <<>>,
           out |-> IF kw_matrix.present /\ ~kw_vectorizer.fitted THEN Raised
                   ELSE Found(<<>>),
           whole |-> WholeIndexes]
    /\ UNCHANGED <<indexVars, engineVars, ret, builder, storeVars, serviceVars>>

\* search, line 146: cosine_similarity(query_vector, self.tfidf_matrix)
SearchScore ==
    /\ searcher.pc = "score"
    /\ LET qv == TfidfVector(searcher.query_fit, searcher.query)
           mismatch == Len(Columns(searcher.query_fit)) # Len(Columns(kw_matrix.fit))
       IN  searcher' =
              [searcher EXCEPT
                 !.pc = IF mismatch THEN "done"
                        ELSE IF Len(kw_matrix.rows) = 0 THEN "sort" ELSE "collect",
                 !.out = IF mismatch THEN Raised ELSE @,
                 !.similarities =
                    IF mismatch THEN <<>>
                    ELSE [i \in 1..Len(kw_matrix.rows) |->
                            CosineSimilarity(qv, TfidfVector(kw_matrix.fit, kw_matrix.rows[i]))]]
    /\ UNCHANGED <<indexVars, engineVars, ret, builder, storeVars, serviceVars>>

\* search, lines 149-165: one pass of the loop over similarities
SearchCollect ==
    /\ searcher.pc = "collect"
    /\ LET idx == searcher.idx + 1
           score == searcher.similarities[idx]
           hit == score >= searcher.min_score /\ idx <= Len(kw_metadata)
       IN  searcher' =
              [searcher EXCEPT
                 !.idx = idx,
                 !.pc = IF idx = Len(searcher.similarities) THEN "sort" ELSE "collect",
                 !.results =
                    IF hit
                    THEN Append(@, [content_id |-> kw_metadata[idx].k,
                                    content |-> kw_metadata[idx].v.content,
                                    score |-> score])
                    ELSE @]
    /\ UNCHANGED <<indexVars, engineVars, ret, builder, storeVars, serviceVars>>

\* search, lines 168-169: sort, cut to top_k, return
SearchSort ==
    /\ searcher.pc = "sort"
    /\ searcher' =
          [searcher EXCEPT
             !.pc = "done",
             !.out = Found(Take(SortByScore(searcher.results), searcher.top_k))]
    /\ UNCHANGED <<indexVars, engineVars, ret, builder, storeVars, serviceVars>>

\* The caller takes the search's outcome.
SearchReturn ==
    /\ searcher.pc = "done"
    /\ searcher' = NoSearch
    /\ UNCHANGED <<indexVars, engineVars, ret, builder, storeVars, serviceVars>>

NextRace ==
    \/ \E documents \in ContentLists : BuildStart(documents)
    \/ BuildStoreDocument
    \/ BuildFit
    \/ BuildAssign
    \/ BuildReturn
    \/ \E query \in QueryTexts : SearchTransform(query, MaxTopK, Scale \div 10)
    \/ SearchScore
    \/ SearchCollect
    \/ SearchSort
    \/ SearchReturn

SpecRace == Init /\ [][NextRace]_vars

\* ------------------------------------------------------------ properties

\* Every search a caller can make of the engine as it stands.
SearchCalls ==
    SearchTypes \X QueryTexts \X QueryEmbeddings \X (1..MaxTopK) \X MinScores

ResultsOf(call) ==
    SearchOutcome(Engine, call[1], call[2], call[3], call[4], call[5]).results

Ranks(rs) == 1..Len(rs)

\* C1: from a counter of 0, the first RebuildThreshold - 1 successful
\* manager mutations (adds, updates and removes in any mix) trigger no
\* rebuild and the RebuildThreshold-th triggers exactly one: after m
\* mutations rebuild_indexes has run m div RebuildThreshold times and the
\* counter stands at m mod RebuildThreshold.
C1_RebuildBoundary ==
    /\ mutations < RebuildThreshold => rebuilds = 0
    /\ mutations = RebuildThreshold => rebuilds = 1 /\ changes_since_rebuild = 0
    /\ rebuilds = mutations \div RebuildThreshold
    /\ changes_since_rebuild = mutations % RebuildThreshold

C1_Witness ==
    /\ mutations = RebuildThreshold
    /\ rebuilds = 1
    /\ ret.op = "remove_content"

\* C2: a hybrid search returns no content_id twice, and a document of
\* either candidate set is left out only by the cut to top_k.
C2_HybridNoDuplicates ==
    (ret.op = "search" /\ ret.search_type = "hybrid" /\ ~ret.out.err) =>
        LET rs == ret.out.results
            vec == IF ret.query_embedding # NoEmbedding
                   THEN VectorSearchResults(vs_embeddings, vs_metadata,
                            ret.query_embedding, 2 * ret.top_k, ret.min_score)
                   ELSE <<>>
            key == KeywordSearchOutcome(kw_vectorizer, kw_matrix, kw_metadata,
                        ret.query, 2 * ret.top_k, ret.min_score).results
            candidates == {vec[i].content_id : i \in Ranks(vec)}
                            \cup {key[i].content_id : i \in Ranks(key)}
        IN  /\ \A i, j \in Ranks(rs) : rs[i].content_id = rs[j].content_id => i = j
            /\ \A i \in Ranks(rs) : rs[i].content_id \in candidates
            /\ Len(rs) < ret.top_k =>
                 \A id \in candidates : \E i \in Ranks(rs) : rs[i].content_id = id

C2_Witness ==
    /\ ret.op = "search" /\ ret.search_type = "hybrid" /\ ~ret.out.err
    /\ Len(ret.out.results) = 2
    /\ \E id \in Ids :
          /\ \E i \in Ranks(ret.out.results) : ret.out.results[i].content_id = id
          /\ LET vec == VectorSearchResults(vs_embeddings, vs_metadata,
                            ret.query_embedding, 2 * ret.top_k, ret.min_score)
                 key == KeywordSearchOutcome(kw_vectorizer, kw_matrix, kw_metadata,
                            ret.query, 2 * ret.top_k, ret.min_score).results
             IN  /\ ret.query_embedding # NoEmbedding
                 /\ \E i \in Ranks(vec) : vec[i].content_id = id
                 /\ \E i \in Ranks(key) : key[i].content_id = id

\* C3: add_embedding with a vector of the wrong length raises and changes
\* neither the embeddings nor the metadata, whatever is stored under the id.
C3_WrongLengthRejected ==
    [][(ret'.op = "add_embedding" /\ Len(ret'.embedding) # embedding_dimension) =>
          /\ ret'.raised
          /\ vs_embeddings' = vs_embeddings
          /\ vs_metadata' = vs_metadata]_vars

C3_Witness ==
    /\ ret.op = "add_embedding"
    /\ ret.raised
    /\ DictHas(vs_embeddings, ret.id)
    /\ DictHas(vs_metadata, ret.id)

\* C7: every successful add, update or remove of a document, through the
\* manager or through the indexer directly, counts as one change: the
\* counter advances by one (and wraps to 0 at the threshold); a batch of n
\* documents counts n changes.
C7_EveryEntryPointCounts ==
    [][(/\ ret'.op \in {"add_content", "update_content", "remove_content",
                        "index_entry", "update_index", "remove_from_index",
                        "batch_index"}
        /\ ret'.ok) =>
          changes_since_rebuild' =
             (changes_since_rebuild + (IF ret'.op = "batch_index" THEN ret'.n ELSE 1))
                % RebuildThreshold]_vars

\* C8: a build that fails or ends without a fit (an empty document list,
\* or a fit that raises) leaves the index built before in service: the
\* vectorizer, the matrix and the metadata are unchanged, and the failure
\* is raised to the caller.
C8_FailedBuildKeepsIndex ==
    [][(/\ ret'.op = "build_index"
        /\ kw_matrix.present
        /\ (ret'.n = 0 \/ ret'.raised)) =>
          /\ kw_vectorizer' = kw_vectorizer
          /\ kw_matrix' = kw_matrix
          /\ kw_metadata' = kw_metadata
          /\ ret'.raised]_vars

\* C10: each result of a hybrid search scores VectorWeight times its score
\* among the vector candidates plus KeywordWeight times its score among the
\* keyword candidates (0 where it is not a candidate); the results are in
\* descending order of that score and are the first top_k of the merged
\* candidates.
C10_HybridFusion ==
    (ret.op = "search" /\ ret.search_type = "hybrid" /\ ~ret.out.err) =>
        LET rs == ret.out.results
            vec == IF ret.query_embedding # NoEmbedding
                   THEN VectorSearchResults(vs_embeddings, vs_metadata,
                            ret.query_embedding, 2 * ret.top_k, ret.min_score)
                   ELSE <<>>
            key == KeywordSearchOutcome(kw_vectorizer, kw_matrix, kw_metadata,
                        ret.query, 2 * ret.top_k, ret.min_score).results
            ScoreIn(cs, id) ==
                IF \E i \in Ranks(cs) : cs[i].content_id = id
                THEN cs[CHOOSE i \in Ranks(cs) : cs[i].content_id = id].score
                ELSE 0
            Fused(id) == VectorWeight * ScoreIn(vec, id) + KeywordWeight * ScoreIn(key, id)
            candidates == {vec[i].content_id : i \in Ranks(vec)}
                            \cup {key[i].content_id : i \in Ranks(key)}
            returned == {rs[i].content_id : i \in Ranks(rs)}
        IN  /\ \A i \in Ranks(rs) : rs[i].score = Fused(rs[i].content_id)
            /\ \A i, j \in Ranks(rs) : i < j => rs[i].score >= rs[j].score
            /\ Len(rs) = IF Cardinality(candidates) < ret.top_k
                         THEN Cardinality(candidates) ELSE ret.top_k
            /\ \A id \in candidates \ returned :
                  \A i \in Ranks(rs) : rs[i].score >= Fused(id)

C10_Witness ==
    /\ ret.op = "search" /\ ret.search_type = "hybrid" /\ ~ret.out.err
    /\ ret.top_k = 1
    /\ Len(ret.out.results) = 1
    /\ LET vec == VectorSearchResults(vs_embeddings, vs_metadata,
                      ret.query_embedding, 2 * ret.top_k, ret.min_score)
           key == KeywordSearchOutcome(kw_vectorizer, kw_matrix, kw_metadata,
                      ret.query, 2 * ret.top_k, ret.min_score).results
       IN  /\ ret.query_embedding # NoEmbedding
           /\ Len(vec) = 2
           /\ Len(key) = 1
           /\ ret.out.results[1].content_id = key[1].content_id
           /\ ret.out.results[1].score > VectorWeight * vec[1].score

\* C4: once update_content has updated an id, both indexes hold only what
\* derives from the new version: the vector index's embedding and metadata
\* for the id, the keyword index's metadata for it, and every result any
\* search returns for it.
C4_UpdateOverwritesBothIndexes ==
    (ret.op = "update_content" /\ ret.ok) =>
        /\ DictHas(vs_embeddings, ret.id) =>
              DictGet(vs_embeddings, ret.id) = GenerateEmbedding(ret.text)
        /\ DictHas(vs_metadata, ret.id) =>
              DictGet(vs_metadata, ret.id).content = ret.text
        /\ DictHas(kw_metadata, ret.id) =>
              DictGet(kw_metadata, ret.id).content = ret.text
        /\ \A call \in SearchCalls :
              \A i \in Ranks(ResultsOf(call)) :
                  ResultsOf(call)[i].content_id = ret.id =>
                      ResultsOf(call)[i].content = ret.text

\* C5: once remove_content has returned True for an id, neither index
\* holds the id and no search returns it.
C5_RemoveFromBothIndexes ==
    (ret.op = "remove_content" /\ ret.ok) =>
        /\ ~DictHas(vs_embeddings, ret.id)
        /\ ~DictHas(vs_metadata, ret.id)
        /\ ~DictHas(kw_metadata, ret.id)
        /\ \A call \in SearchCalls :
              \A i \in Ranks(ResultsOf(call)) :
                  ResultsOf(call)[i].content_id # ret.id

\* C6: the step in which the counter reaches the threshold rebuilds the
\* keyword index from the corpus and resets the counter: right after it the
\* counter is 0, the keyword index holds exactly the corpus's ids, and a
\* non-empty corpus has its matrix.
C6_RebuildFromCorpus ==
    [][rebuilds' # rebuilds =>
          /\ changes_since_rebuild' = 0
          /\ DictKeys(kw_metadata') = DictKeys(indexed_content')
          /\ indexed_content' # <<>> =>
                /\ kw_matrix'.present
                /\ kw_matrix'.rows = TextsOf(ExportContentMetadata(indexed_content'))]_vars

\* C9: a keyword search that runs while build_index runs is answered from
\* a whole index: its outcome is the outcome of the same search on the index
\* as it stood before the build or on the index the build leaves, never on
\* a mixture of the two.
C9_SearchSeesWholeIndex ==
    searcher.pc = "done" =>
        searcher.out \in
            {KeywordSearchOutcome(ix.vectorizer, ix.matrix, ix.meta, searcher.query,
                                  searcher.top_k, searcher.min_score) :
                ix \in searcher.whole}

\* C11: a vector search returns the best-scoring stored documents at or
\* above the threshold: every result is a stored id scoring its cosine
\* similarity to the query, at least min_score; the results are in
\* descending order of score; there are top_k of them, or all that reach
\* the threshold when those are fewer; and no stored document left out
\* reaches the threshold and scores strictly higher than a returned one.
C11_VectorSearchBest ==
    ret.op = "vector_search" =>
        LET rs == ret.out.results
            ScoreOf(id) == CosineSimilarity(ret.query_embedding, DictGet(vs_embeddings, id))
            eligible == {id \in DictKeys(vs_embeddings) : ScoreOf(id) >= ret.min_score}
            returned == {rs[i].content_id : i \in Ranks(rs)}
        IN  /\ ~ret.out.err
            /\ \A i \in Ranks(rs) :
                  /\ rs[i].content_id \in eligible
                  /\ rs[i].score = ScoreOf(rs[i].content_id)
                  /\ rs[i].score >= ret.min_score
            /\ \A i, j \in Ranks(rs) : i < j =>
                  /\ rs[i].score >= rs[j].score
                  /\ rs[i].content_id # rs[j].content_id
            /\ Len(rs) = IF Cardinality(eligible) < ret.top_k
                         THEN Cardinality(eligible) ELSE ret.top_k
            /\ \A id \in eligible \ returned :
                  \A i \in Ranks(rs) : ScoreOf(id) <= rs[i].score

\* A search cut to one result that returns the document stored second and
\* leaves out the one stored first, which reaches the threshold too.
C11_Witness ==
    /\ ret.op = "vector_search"
    /\ ret.top_k = 1
    /\ Len(vs_embeddings) = 2
    /\ Len(ret.out.results) = 1
    /\ ret.out.results[1].content_id = vs_embeddings[2].k
    /\ CosineSimilarity(ret.query_embedding, vs_embeddings[1].v) >= ret.min_score
    /\ CosineSimilarity(ret.query_embedding, vs_embeddings[1].v) < ret.out.results[1].score

\* C12: results of equal score come in ascending order of content id, in
\* vector, keyword and hybrid mode alike, whatever the order in which the
\* documents were indexed.
C12_TiesByAscendingId ==
    (ret.op \in {"search", "vector_search", "keyword_search"} /\ ~ret.out.err) =>
        \A i, j \in Ranks(ret.out.results) :
            (i < j /\ ret.out.results[i].score = ret.out.results[j].score) =>
                ret.out.results[i].content_id < ret.out.results[j].content_id

\* C14: an update or a remove of an id the corpus does not hold, through
\* the manager or the indexer, returns None / False and leaves the corpus
\* and the mutation counter as they were.
C14_UnknownIdIsNoChange ==
    [][(/\ ret'.op \in {"update_content", "update_index",
                        "remove_content", "remove_from_index"}
        /\ ~DictHas(indexed_content, ret'.id)) =>
          /\ ~ret'.ok
          /\ indexed_content' = indexed_content
          /\ changes_since_rebuild' = changes_since_rebuild
          /\ rebuilds' = rebuilds]_vars

\* An update of an unknown id has returned None while the corpus holds
\* another document and the counter stands above 0.
C14_Witness ==
    /\ ret.op = "update_content"
    /\ ~ret.ok
    /\ ~DictHas(indexed_content, ret.id)
    /\ indexed_content # <<>>
    /\ changes_since_rebuild > 0

\* C19: indexing a source with no usable text, through the indexer or the
\* manager, fails and stores nothing: the corpus is as it was, so an entry
\* stored under the id before is kept and none is created.
C19_NoTextIsRejected ==
    [][(ret'.op \in {"index_entry", "add_content"} /\ ret'.text = {}) =>
          /\ ~ret'.ok
          /\ indexed_content' = indexed_content]_vars

\* C20: index_content given an embedding of the wrong length is rejected
\* and changes nothing: the call raises, and the keyword index and the
\* vector index are as they were before it.
C20_MismatchRejectedWhole ==
    [][(ret'.op = "index_content" /\ ret'.mismatch) =>
          /\ ret'.raised
          /\ keywordVars' = keywordVars
          /\ vectorVars' = vectorVars]_vars

\* C15: a load that fails leaves the state in memory as it was: whichever
\* of load_index (vector or keyword) or load_indexes raises, the dimension,
\* the embeddings and the vector metadata, and the vectorizer, the matrix and
\* the keyword metadata are all unchanged, so neither sub-index is replaced
\* in part and the engine never has one replaced without the other.
C15_FailedLoadChangesNothing ==
    [][(ret'.op \in {"vector_load", "keyword_load", "load_indexes"} /\ ret'.raised) =>
          /\ vectorVars' = vectorVars
          /\ keywordVars' = keywordVars]_vars

\* C16: a load of a vector-index file that states another dimension than
\* the index is configured with fails, and neither the dimension nor the
\* embeddings of the index change.
C16_ForeignDimensionRejected ==
    [][(/\ ret'.op \in {"vector_load", "load_indexes"}
        /\ ret'.vector.dimension \notin {0, embedding_dimension}) =>
          /\ ret'.raised
          /\ embedding_dimension' = embedding_dimension
          /\ vs_embeddings' = vs_embeddings]_vars

\* C17: load_indexes where the vector-index file or the keyword-index file
\* is missing reports a failure to its caller.
C17_MissingFileIsReported ==
    [][(/\ ret'.op = "load_indexes"
        /\ (ret'.vector.missing \/ ret'.keyword.missing)) =>
          ret'.raised]_vars

\* C18: a load of the files as they were saved, into an index of the
\* dimension that saved them, succeeds and yields an index that answers
\* every search as the saved one did (ids, order and scores): the vector
\* index for every vector search, the keyword index for every keyword
\* search, the engine for every search in every mode.
C18_SaveLoadRoundTrip ==
    LET saved == disk.engine.engine
    IN  /\ (ret.op = "vector_load" /\ ret.vector.intact /\ ret.same) =>
              /\ ~ret.raised
              /\ \A query_embedding \in QueryEmbeddings \ {NoEmbedding},
                    top_k \in 1..MaxTopK, min_score \in MinScores :
                      VectorSearchResults(vs_embeddings, vs_metadata,
                                          query_embedding, top_k, min_score)
                        = VectorSearchResults(saved.embs, saved.meta,
                                              query_embedding, top_k, min_score)
        /\ (ret.op = "keyword_load" /\ ret.keyword.intact) =>
              /\ ~ret.raised
              /\ \A query \in QueryTexts, top_k \in 1..MaxTopK, min_score \in MinScores :
                      KeywordSearchOutcome(kw_vectorizer, kw_matrix, kw_metadata,
                                           query, top_k, min_score)
                        = KeywordSearchOutcome(saved.vectorizer, saved.matrix,
                                               saved.kwmeta, query, top_k, min_score)
        /\ (/\ ret.op = "load_indexes"
            /\ ret.vector.intact /\ ret.keyword.intact /\ ret.same) =>
              /\ ~ret.raised
              /\ \A call \in SearchCalls :
                      SearchOutcome(Engine, call[1], call[2], call[3], call[4], call[5])
                        = SearchOutcome(saved, call[1], call[2], call[3], call[4], call[5])

\* load_indexes has loaded both files as saved; the saved engine held two
\* documents, id 2 indexed before id 1.
C18_Witness ==
    /\ ret.op = "load_indexes"
    /\ ret.vector.intact /\ ret.keyword.intact /\ ret.same
    /\ ~ret.raised
    /\ Len(vs_embeddings) = 2
    /\ vs_embeddings[1].k = 2
    /\ kw_matrix.present
    /\ Len(kw_metadata) = 2
    /\ disk.vector # VectorFile(EmbeddingDimension, <<>>, <<>>)

\* C13: a search of an engine that holds no documents (no embedding, no
\* vector metadata, no keyword metadata: never fed, emptied by removals, or
\* last built from an empty list) returns the empty list and raises
\* nothing, in every mode.
C13_EmptyIndexSearch ==
    (/\ ret.op = "search"
     /\ vs_embeddings = <<>> /\ vs_metadata = <<>> /\ kw_metadata = <<>>) =>
        ret.out = Found(<<>>)

\* C21: after an index_content call that returned normally and was given
\* an embedding for every listed document, the vector index and the
\* keyword index hold the same ids, the ids of the list of that call
\* (build_index makes them the keys of content_metadata), so
\* get_search_stats reports equal counts.
C21_SameIdsInBothIndexes ==
    [][(ret'.op = "index_content" /\ ret'.complete /\ ~ret'.raised) =>
          /\ DictKeys(vs_embeddings') = DictKeys(kw_metadata')
          /\ Len(vs_embeddings') = Len(kw_metadata')]_vars

\* C22: a search in vector mode is answered by the vector index alone:
\* with a query vector its result is that of VectorSearch.search, and
\* without one it returns no result of the keyword index.
C22_VectorModeIsVectorOnly ==
    (ret.op = "search" /\ ret.search_type = "vector") =>
        IF ret.query_embedding # NoEmbedding
        THEN ret.out = Found(VectorSearchResults(vs_embeddings, vs_metadata,
                                ret.query_embedding, ret.top_k, ret.min_score))
        ELSE ret.out.results = <<>>

\* C23: update_index(id, source) on an indexed id leaves the corpus as
\* indexing source under id would: the entry under id is the one built
\* from source, and the entry of every other id is as it was.
C23_UpdateIsReindex ==
    [][(/\ ret'.op \in {"update_index", "update_content"}
        /\ DictHas(indexed_content, ret'.id)) =>
          /\ DictHas(indexed_content', ret'.id)
          /\ DictGet(indexed_content', ret'.id) = IndexEntry(ret'.id, ret'.text)
          /\ \A other \in Ids \ {ret'.id} :
                /\ DictHas(indexed_content', other) = DictHas(indexed_content, other)
                /\ DictHas(indexed_content, other) =>
                      DictGet(indexed_content', other) = DictGet(indexed_content, other)]_vars

\* C28: after a build_index call the TF-IDF matrix has one row per entry
\* of content_metadata and row i was computed from the text of the
\* document under the i-th key, whatever list the build was given.
C28_RowsMatchMetadata ==
    (ret.op = "build_index" /\ kw_matrix.present) =>
        /\ Len(kw_matrix.rows) = Len(kw_metadata)
        /\ \A i \in 1..Len(kw_matrix.rows) :
              i <= Len(kw_metadata) => kw_matrix.rows[i] = kw_metadata[i].v.content

\* C29: every result of a hybrid search has a fused score of at least the
\* min_score the search was called with (fused scores are in tenths of
\* the unit of min_score).
C29_HybridAboveMinScore ==
    (ret.op = "search" /\ ret.search_type = "hybrid") =>
        \A i \in Ranks(ret.out.results) :
            ret.out.results[i].score >= (VectorWeight + KeywordWeight) * ret.min_score

\* C24: keyword extraction returns the lower-cased words of the text that
\* are longer than 2 characters and are no stop words, each once, in the
\* order of their first occurrence, cut to the first 20: no duplicate, no
\* stop word, no word of 2 characters or fewer, and at most 20 entries.
C24_ExtractKeywords ==
    ret.op = "extract_keywords" =>
        LET tokens == Words(ret.text)
            keywords == ret.keywords
            first == {p \in 1..Len(tokens) :
                        /\ Len(tokens[p]) > 2
                        /\ tokens[p] \notin StopWords
                        /\ \A q \in 1..(p - 1) : tokens[q] # tokens[p]}
            at == [i \in 1..Len(keywords) |->
                     IF \E p \in first : tokens[p] = keywords[i]
                     THEN CHOOSE p \in first : tokens[p] = keywords[i]
                     ELSE 0]
        IN  /\ Len(keywords) = IF Cardinality(first) < 20 THEN Cardinality(first) ELSE 20
            /\ \A i \in 1..Len(keywords) :
                  /\ at[i] # 0
                  /\ Len(keywords[i]) > 2
                  /\ keywords[i] \notin StopWords
                  /\ \A j \in 1..(i - 1) : keywords[j] # keywords[i] /\ at[j] < at[i]
            /\ \A p \in first :
                  (keywords # <<>> /\ p < at[Len(keywords)]) =>
                      \E i \in 1..Len(keywords) : at[i] = p

\* Keywords were extracted from a text of more than 20 distinct keywords
\* that also holds an upper-case stop word and an upper-case repeat of its
\* first keyword: 20 keywords came back.
C24_Witness ==
    /\ ret.op = "extract_keywords"
    /\ Len(ret.keywords) = 20
    /\ Len(ret.text) > 22
    /\ \E i, j \in 1..Len(ret.text) :
          /\ ret.text[i] = "The" /\ ret.text[j] = "Kw1"
          /\ i < 20 /\ j < 20

\* C25: process_message reports in_scope = true, with a type other than
\* 'out_of_scope', exactly when check_scope accepts the message, and
\* in_scope = false with the type 'out_of_scope' exactly when it rejects it.
C25_InScopeIffCheckScope ==
    ret.op = "process_message" =>
        /\ (ret.in_scope /\ ret.type # "out_of_scope") <=> CheckScope(ret.user_message)
        /\ (~ret.in_scope /\ ret.type = "out_of_scope") <=> ~CheckScope(ret.user_message)

\* C26: clear_session returns True exactly when the session exists;
\* afterwards get_session finds nothing under the id and
\* get_active_sessions does not list it, while every other session is
\* listed as before, in the same order, with the same messages.
C26_ClearSessionFrame ==
    [][ret'.op = "clear_session" =>
          /\ ret'.result = DictHas(sessions, ret'.session_id)
          /\ GetSession(sessions', ret'.session_id) = <<>>
          /\ \A i \in 1..Len(sessions') : sessions'[i].k # ret'.session_id
          /\ GetActiveSessions(sessions') =
                SelectSeq(GetActiveSessions(sessions),
                          LAMBDA id : id # ret'.session_id)
          /\ \A id \in SessionIds \ {ret'.session_id} :
                GetSession(sessions', id) = GetSession(sessions, id)]_vars

\* clear_session has returned True while another session, created by a
\* process_message call, is live with its three messages.
C26_Witness ==
    /\ ret.op = "clear_session"
    /\ ret.result
    /\ ~DictHas(sessions, ret.session_id)
    /\ \E id \in SessionIds \ {ret.session_id} :
          DictHas(sessions, id) /\ Len(DictGet(sessions, id)) = 3

\* C27: the history of every live session is the assistant's welcome
\* message followed by pairs of one user message and one assistant
\* message, in that order; create_session leaves one message, and every
\* process_message call appends the user message and then one assistant
\* message to what the session held (the welcome, when it creates it).
C27_HistoryShape ==
    /\ [](\A s \in 1..Len(sessions) :
            LET messages == sessions[s].v
            IN  /\ Len(messages) % 2 = 1
                /\ messages[1] = AssistantMessage("greeting")
                /\ \A i \in 2..Len(messages) :
                      messages[i].role = IF i % 2 = 0 THEN "user" ELSE "assistant")
    /\ [][(ret'.op = "create_session" =>
                Len(GetSession(sessions', ret'.session_id)) = 1)
           /\ (ret'.op = "process_message" =>
                LET before == IF ret'.created THEN NewSession
                              ELSE GetSession(sessions, ret'.session_id)
                    after == GetSession(sessions', ret'.session_id)
                IN  /\ Len(after) = Len(before) + 2
                    /\ SubSeq(after, 1, Len(before)) = before
                    /\ after[Len(before) + 1] = UserMessage(ret'.user_message)
                    /\ after[Len(before) + 2].role = "assistant")]_vars

\* process_message has created the session itself and ended in its except
\* block: the session holds the welcome, the user message and the apology.
C27_Witness ==
    /\ ret.op = "process_message"
    /\ ret.created
    /\ ret.type = "error"
    /\ Len(DictGet(sessions, ret.session_id)) = 3
    /\ DictGet(sessions, ret.session_id)[3] = AssistantMessage("error")

\* C30: the status of a job only moves from pending to running and from
\* running to completed or failed, or from pending to cancelled: a job
\* that is cancelled, completed or failed keeps its status, so a cancelled
\* job is never run.
C30_JobStatusMoves ==
    [][\A i \in 1..Len(jobs) :
          \/ jobs'[i].v.status = jobs[i].v.status
          \/ <<jobs[i].v.status, jobs'[i].v.status>> \in
                {<<"pending", "running">>, <<"running", "completed">>,
                 <<"running", "failed">>, <<"pending", "cancelled">>}]_vars

====
